---- MODULE Spec2Model ----
(***************************************************************************)
(* A model of src/overlaybd/utility.h: the tagged pointer OwnedPtr, the    *)
(* scoped action Defer, the integer range xrange_t and the alignment       *)
(* helpers.  The primitives are independent of each other; each has its    *)
(* own specification (SpecPtr, SpecDefer, SpecDeferCopy, SpecRange,        *)
(* SpecAlign) over its own variables, the others staying idle.             *)
(*                                                                         *)
(* uint64_t is modelled as an unsigned word of Width bits (RBits bits for  *)
(* the integers of a range) and int64_t as a two's complement word of the  *)
(* same width, so that wrap-around and the top bit are reachable by        *)
(* exhaustive enumeration.                                                 *)
(***************************************************************************)
EXTENDS Integers, Sequences, FiniteSets

VARIABLES
    objs,       \* OwnedPtr instances: id -> [st, m_ptr, a, b]
    released,   \* heap: address -> number of times delete ran on it
    scope,      \* Defer handles alive in the scope, in order of construction
    fired,      \* log of the invocations of the deferred actions
    nreg,       \* number of actions registered through make_defer / DEFER
    dpc,        \* the scope: [at, path], at one of "open", "unwinding", "exited"
    rng,        \* the xrange_t value: [signed, begin, end, step]
    it,         \* the cursor iterator::i of the traversal
    out,        \* the values the traversal has yielded
    rpc,        \* position of the traversal: "loop", "done", "ub", "diverged"
    ax,         \* first argument of the alignment call
    ap,         \* second argument (alignment) of the alignment call
    aop,        \* the function that was called: "none", "down", "up", "pow2"
    ares,       \* the uint64_t result of alingn_down / alingn_up
    apow        \* the bool result of is_power_of_2

ptrVars   == <<objs, released>>
deferVars == <<scope, fired, nreg, dpc>>
rangeVars == <<rng, it, out, rpc>>
alignVars == <<ax, ap, aop, ares, apow>>
notPtr    == <<scope, fired, nreg, dpc, rng, it, out, rpc, ax, ap, aop, ares, apow>>
notDefer  == <<objs, released, rng, it, out, rpc, ax, ap, aop, ares, apow>>
notRange  == <<objs, released, scope, fired, nreg, dpc, ax, ap, aop, ares, apow>>
notAlign  == <<objs, released, scope, fired, nreg, dpc, rng, it, out, rpc>>
vars      == <<objs, released, scope, fired, nreg, dpc, rng, it, out, rpc,
               ax, ap, aop, ares, apow>>

---------------------------------------------------------------------------
(* Bounds of the model *)

\* number of bits of the machine word standing for uint64_t / int64_t
Width == 5
\* number of OwnedPtr instances
MaxObjs == 2
\* largest pointee address handed to an OwnedPtr constructor
MaxAddr == 4
\* number of actions registered in the scope
MaxDefer == 7
\* number of copy-constructions of a Defer handle
MaxCopies == 2
\* number of bits of the integers a range runs over
RBits == 4
\* largest magnitude of the step of a range
MaxStep == 4

---------------------------------------------------------------------------
(* Machine words *)

Pow2(n) == 2 ^ n

\* the values of a uint64_t
UWord == 0 .. (Pow2(Width) - 1)

\* conversion to uint64_t: reduction modulo 2^Width
U64(x) == x % Pow2(Width)

RECURSIVE BitAnd(_, _)
\* the operator & on two unsigned words
BitAnd(x, y) ==
    IF x = 0 \/ y = 0 THEN 0
    ELSE (x % 2) * (y % 2) + 2 * BitAnd(x \div 2, y \div 2)

\* the operator ~ on an unsigned word
BitNot(x) == (Pow2(Width) - 1) - x

RECURSIVE PopCount(_)
\* number of set bits of a non-negative integer
PopCount(x) == IF x = 0 THEN 0 ELSE (x % 2) + PopCount(x \div 2)

---------------------------------------------------------------------------
(* OwnedPtr_Base and OwnedPtr<T> *)

\* const static uint64_t mask = 1
mask == 1

\* (uint64_t)ownership: the conversion of a bool to an integer
BoolToU64(b) == IF b THEN 1 ELSE 0

\* the operator | on two unsigned words
BitOr(x, y) == x + y - BitAnd(x, y)

\* a constructor that combines the address and the flag with |
OwnedPtr_Base_ctor_Or(ptr, ownership) == BitOr(ptr, BoolToU64(ownership))

\* a constructor that sets the tag bit whatever the flag says
OwnedPtr_Base_ctor_AlwaysTag(ptr, ownership) == BitOr(ptr, mask)

\* OwnedPtr_Base(void *ptr, bool ownership): the value stored in m_ptr
OwnedPtr_Base_ctor(ptr, ownership) == BitAnd(ptr, BoolToU64(ownership))

\* void *get()
get(m_ptr) == BitAnd(m_ptr, BitNot(mask))

\* bool owned()
owned(m_ptr) == BitAnd(m_ptr, mask) # 0

ObjIds == 1 .. MaxObjs
Addrs  == 0 .. MaxAddr

NoObj == [st |-> "none", m_ptr |-> 0, a |-> 0, b |-> FALSE]

PtrInit ==
    /\ objs = [i \in ObjIds |-> NoObj]
    /\ released = [x \in Addrs |-> 0]

\* OwnedPtr(T *ptr, bool ownership); a and b record the arguments
Construct(i, ptr, ownership) ==
    /\ objs[i].st = "none"
    /\ objs' = [objs EXCEPT ![i] =
                  [st |-> "live", m_ptr |-> OwnedPtr_Base_ctor(ptr, ownership),
                   a |-> ptr, b |-> ownership]]
    /\ UNCHANGED <<released, notPtr>>

\* the implicit copy constructor OwnedPtr(const OwnedPtr &): copies m_ptr
CopyConstruct(i, j) ==
    /\ objs[i].st = "none"
    /\ objs[j].st = "live"
    /\ objs' = [objs EXCEPT ![i] = objs[j]]
    /\ UNCHANGED <<released, notPtr>>

\* delete p: a no-op on the null pointer, else the pointee is released
Delete(rel, p) == IF p = 0 THEN rel ELSE [rel EXCEPT ![p] = @ + 1]

\* ~OwnedPtr(): if (owned()) delete (T *)get();
Destroy(i) ==
    /\ objs[i].st = "live"
    /\ objs' = [objs EXCEPT ![i].st = "dead"]
    /\ released' = IF owned(objs[i].m_ptr)
                   THEN Delete(released, get(objs[i].m_ptr))
                   ELSE released
    /\ UNCHANGED notPtr

PtrNext ==
    \/ \E i \in ObjIds, ptr \in Addrs, ownership \in BOOLEAN :
           Construct(i, ptr, ownership)
    \/ \E i \in ObjIds, j \in ObjIds : CopyConstruct(i, j)
    \/ \E i \in ObjIds : Destroy(i)

PtrIdle == objs = [i \in ObjIds |-> NoObj] /\ released = [x \in Addrs |-> 0]

---------------------------------------------------------------------------
(* Defer<T>, make_defer and DEFER *)

\* A deferred action is named by the index of its registration; a handle is
\* the action it holds in m_func.

\* Defer(T fn) : m_func(fn)
Defer_ctor(fn) == fn

\* make_defer(T func): return Defer<T>(func); the returned object is
\* constructed in place in the caller's variable
make_defer(func) == Defer_ctor(func)

\* the implicit copy constructor Defer(const Defer &): copies m_func
Defer_copy(h) == h

\* a destructor that does not call the action
Defer_dtor_NoCall(log, h) == log

\* ~Defer() { m_func(); }: the effect on the log of invocations
Defer_dtor(log, h) == Append(log, h)

ExitPaths == {"end", "return", "throw"}

DeferInit ==
    /\ scope = <<>>
    /\ fired = <<>>
    /\ nreg = 0
    /\ dpc = [at |-> "open", path |-> "none"]

\* auto __defer__N = make_defer([&]() { func; }): one more handle in the scope
Register ==
    /\ dpc.at = "open"
    /\ nreg < MaxDefer
    /\ nreg' = nreg + 1
    /\ scope' = Append(scope, make_defer(nreg + 1))
    /\ UNCHANGED <<fired, dpc, notDefer>>

\* Defer<T> d2(d1): a handle copy-constructed from a handle of the scope
CopyDefer(k) ==
    /\ dpc.at = "open"
    /\ Len(scope) - nreg < MaxCopies
    /\ scope' = Append(scope, Defer_copy(scope[k]))
    /\ UNCHANGED <<fired, nreg, dpc, notDefer>>

\* control leaves the block: by its end, by a return or by an exception
ExitScope(path) ==
    /\ dpc.at = "open"
    /\ dpc' = [at |-> IF scope = <<>> THEN "exited" ELSE "unwinding",
               path |-> path]
    /\ UNCHANGED <<scope, fired, nreg, notDefer>>

\* the automatic objects of the block are destroyed in the reverse order of
\* their construction; each destruction runs ~Defer()
Unwind ==
    /\ dpc.at = "unwinding"
    /\ fired' = Defer_dtor(fired, scope[Len(scope)])
    /\ scope' = SubSeq(scope, 1, Len(scope) - 1)
    /\ dpc' = [dpc EXCEPT !.at = IF Len(scope) = 1 THEN "exited" ELSE @]
    /\ UNCHANGED <<nreg, notDefer>>

DeferNext ==
    \/ Register
    \/ \E path \in ExitPaths : ExitScope(path)
    \/ Unwind

DeferCopyNext ==
    \/ DeferNext
    \/ \E k \in 1 .. Len(scope) : CopyDefer(k)

DeferIdle == DeferInit

---------------------------------------------------------------------------
(* xrange_t<INT>, its iterator, and xrange() *)

\* the values of INT: int64_t for the signed overload, uint64_t for the other
SMin == 0 - Pow2(RBits - 1)
SMax == Pow2(RBits - 1) - 1
UMax == Pow2(RBits) - 1
Dom(signed) == IF signed THEN SMin .. SMax ELSE 0 .. UMax

\* the steps the model draws: int64_t values other than 0
Steps == ((0 - MaxStep) .. MaxStep) \ {0}

\* xrange(T begin, T end, int64_t step): xrange_t<INT>{begin, end, step}
xrange(signed, begin, end, step) ==
    [signed |-> signed, begin |-> begin, end |-> end, step |-> step]

\* iterator begin() const: the cursor of iterator{this, _begin}
xrange_begin(r) == r.begin

\* iterator end() const: the cursor of iterator{this, _end}
xrange_end(r) == r.end

\* an equality that compares the cursors only
iterator_eq_Exact(r, i, j) == i = j

\* bool operator==(const iterator &rhs) const, both iterators of the range r
iterator_eq(r, i, j) == i = j \/ (i >= r.end /\ j >= r.end)

\* bool operator!=(const iterator &rhs) const
iterator_ne(r, i, j) == ~iterator_eq(r, i, j)

\* INT operator*()
iterator_deref(i) == i

\* i += _step overflows the signed INT: undefined behaviour
inc_overflows(r, i) == r.signed /\ (i + r.step) \notin (SMin .. SMax)

\* iterator &operator++(): i += _step, modulo 2^w in the unsigned domain
iterator_inc(r, i) ==
    IF r.signed THEN i + r.step ELSE (i + r.step) % Pow2(RBits)

\* an unsigned cursor takes at most 2^w values before it repeats
MaxOut == Pow2(RBits)

RangeInit ==
    /\ \E signed \in BOOLEAN :
         \E begin \in Dom(signed), end \in Dom(signed), step \in Steps :
            rng = xrange(signed, begin, end, step)
    /\ it = xrange_begin(rng)
    /\ out = <<>>
    /\ rpc = "loop"

\* for (auto i : r) { yield i; }: one turn of the loop, it != end() held
RangeBody ==
    /\ rpc = "loop"
    /\ iterator_ne(rng, it, xrange_end(rng))
    /\ Len(out) < MaxOut
    /\ out' = Append(out, iterator_deref(it))
    /\ IF inc_overflows(rng, it)
       THEN /\ it' \in Dom(TRUE)
            /\ rpc' = "ub"
       ELSE /\ it' = iterator_inc(rng, it)
            /\ rpc' = rpc
    /\ UNCHANGED <<rng, notRange>>

\* the loop ends: it != end() is false
RangeEnd ==
    /\ rpc = "loop"
    /\ iterator_eq(rng, it, xrange_end(rng))
    /\ rpc' = "done"
    /\ UNCHANGED <<rng, it, out, notRange>>

\* the cursor has taken every value it can take and the loop still runs:
\* the traversal never ends
RangeDiverge ==
    /\ rpc = "loop"
    /\ iterator_ne(rng, it, xrange_end(rng))
    /\ Len(out) = MaxOut
    /\ rpc' = "diverged"
    /\ UNCHANGED <<rng, it, out, notRange>>

RangeNext == RangeBody \/ RangeEnd \/ RangeDiverge

RangeIdle ==
    /\ rng = xrange(TRUE, 0, 0, 1)
    /\ it = 0
    /\ out = <<>>
    /\ rpc = "idle"

---------------------------------------------------------------------------
(* is_power_of_2, alingn_down, alingn_up *)

\* unsigned int is half as wide as uint64_t
builtin_popcount(x) == PopCount(x % Pow2(Width \div 2))

\* __builtin_popcountl(unsigned long): unsigned long is as wide as uint64_t
\* on the LP64 targets the repository builds for
builtin_popcountl(x) == PopCount(x % Pow2(Width))

\* inline bool is_power_of_2(uint64_t x)
is_power_of_2(x) == builtin_popcountl(x) = 1

\* a mask computed from the alignment itself
alingn_down_NoDecrement(x, alignment) == BitAnd(x, BitNot(alignment))

\* inline uint64_t alingn_down(uint64_t x, uint64_t alignment)
alingn_down(x, alignment) == BitAnd(x, BitNot(U64(alignment - 1)))

\* inline uint64_t alingn_up(uint64_t x, uint64_t alignment)
alingn_up(x, alignment) == alingn_down(U64(x + alignment - 1), alignment)

AlignInit ==
    /\ ax \in UWord
    /\ ap \in UWord
    /\ aop = "none"
    /\ ares = 0
    /\ apow = FALSE

CallAlignDown ==
    /\ aop = "none"
    /\ aop' = "down"
    /\ ares' = alingn_down(ax, ap)
    /\ UNCHANGED <<ax, ap, apow, notAlign>>

CallAlignUp ==
    /\ aop = "none"
    /\ aop' = "up"
    /\ ares' = alingn_up(ax, ap)
    /\ UNCHANGED <<ax, ap, apow, notAlign>>

CallIsPowerOf2 ==
    /\ aop = "none"
    /\ aop' = "pow2"
    /\ apow' = is_power_of_2(ax)
    /\ UNCHANGED <<ax, ap, ares, notAlign>>

AlignNext == CallAlignDown \/ CallAlignUp \/ CallIsPowerOf2

AlignIdle ==
    /\ ax = 0
    /\ ap = 1
    /\ aop = "none"
    /\ ares = 0
    /\ apow = FALSE

---------------------------------------------------------------------------
(* Specifications *)

InitPtr == PtrInit /\ DeferIdle /\ RangeIdle /\ AlignIdle

SpecPtr == InitPtr /\ [][PtrNext]_vars

InitDefer == PtrIdle /\ DeferInit /\ RangeIdle /\ AlignIdle

SpecDefer == InitDefer /\ [][DeferNext]_vars

SpecDeferCopy == InitDefer /\ [][DeferCopyNext]_vars

InitRange == PtrIdle /\ DeferIdle /\ RangeInit /\ AlignIdle

SpecRange == InitRange /\ [][RangeNext]_vars

\* a running loop takes its next turn
SpecRangeFair == SpecRange /\ WF_vars(RangeNext)

InitAlign == PtrIdle /\ DeferIdle /\ RangeIdle /\ AlignInit

SpecAlign == InitAlign /\ [][AlignNext]_vars

---------------------------------------------------------------------------
(* Properties of OwnedPtr, under SpecPtr *)

Live(i) == objs[i].st = "live"
Dead(i) == objs[i].st = "dead"
Even(x) == x % 2 = 0

\* C1: an OwnedPtr constructed from an even address a and a flag b returns a
\* from get() (operator-> and operator T*) and b from owned().
C1_RoundTrip ==
    \A i \in ObjIds :
        (Live(i) /\ Even(objs[i].a)) =>
            /\ get(objs[i].m_ptr) = objs[i].a
            /\ owned(objs[i].m_ptr) = objs[i].b

\* C2: once an OwnedPtr constructed from an even, non-null address a with
\* ownership=true has been destroyed, the pointee at a has been released
\* exactly once.
C2_OwnedReleasedOnce ==
    \A i \in ObjIds :
        (Dead(i) /\ Even(objs[i].a) /\ objs[i].a # 0 /\ objs[i].b) =>
            released[objs[i].a] = 1

\* C3: the destructor of an OwnedPtr constructed from an even address with
\* ownership=false releases nothing: every release count is as it was before
\* the destructor ran.
C3_NotOwnedNotReleased ==
    [][\A i \in ObjIds :
          (Live(i) /\ objs'[i].st = "dead" /\ ~objs[i].b /\ Even(objs[i].a))
              => released' = released]_vars

C3_Witness ==
    \E i \in ObjIds :
        Dead(i) /\ ~objs[i].b /\ Even(objs[i].a) /\ objs[i].a # 0

\* two live instances that both report ownership
BothOwn(i, j) ==
    /\ i # j
    /\ Live(i) /\ Live(j)
    /\ owned(objs[i].m_ptr) /\ owned(objs[j].m_ptr)

---------------------------------------------------------------------------
(* Properties of Defer *)

\* number of invocations of the action a
Invocations(a) == Cardinality({k \in 1 .. Len(fired) : fired[k] = a})

\* C4 (SpecDefer): no registered action fires while the scope is open; the
\* actions fire in the reverse order of their registration, the last one
\* first; and once the scope has exited, by whichever path, each of the nreg
\* actions has fired exactly once.
C4_ReverseOrderOnce ==
    /\ dpc.at = "open" => fired = <<>>
    /\ \A k \in 1 .. Len(fired) : fired[k] = nreg - k + 1
    /\ dpc.at = "exited" => Len(fired) = nreg

C4_Witness ==
    /\ dpc.at = "exited"
    /\ dpc.path = "throw"
    /\ nreg >= 3

\* C5 (SpecDeferCopy): after registrations, copy-constructions of handles
\* and the destruction of every handle, each registered action has been
\* invoked exactly once.
C5_InvokedOnce ==
    dpc.at = "exited" => \A a \in 1 .. nreg : Invocations(a) = 1

---------------------------------------------------------------------------
(* Properties of xrange *)

\* the values begin + k*step, k = 0, 1, ..., that are below end (step > 0)
ExpectedAsc(r) ==
    LET n == IF r.begin >= r.end THEN 0
             ELSE ((r.end - r.begin - 1) \div r.step) + 1
    IN  [k \in 1 .. n |-> r.begin + (k - 1) * r.step]

\* the values begin + k*step, k = 0, 1, ..., that are above end (step < 0)
ExpectedDesc(r) ==
    LET n == IF r.begin <= r.end THEN 0
             ELSE ((r.begin - r.end - 1) \div (0 - r.step)) + 1
    IN  [k \in 1 .. n |-> r.begin + (k - 1) * r.step]

\* C6 (SpecRange): a finished traversal of a range with begin > end and
\* step < 0 has yielded begin, begin+step, ... down to the last value above
\* end.
C6_Descending ==
    (rpc = "done" /\ rng.begin > rng.end /\ rng.step < 0) =>
        out = ExpectedDesc(rng)

\* begin <= end, step >= 1, and end + step is a value of the domain
AscendingRange ==
    /\ rng.begin <= rng.end
    /\ rng.step >= 1
    /\ rng.end + rng.step <= (IF rng.signed THEN SMax ELSE UMax)

\* C7 (SpecRangeFair): the traversal of a range with begin <= end, step >= 1
\* and end + step not overflowing ends, and has then yielded exactly the
\* values begin + k*step below end, in increasing order.
C7_Ascending ==
    (rpc = "loop" /\ AscendingRange) ~> (rpc = "done" /\ out = ExpectedAsc(rng))

\* a finished traversal whose step jumped over end
C7_Witness ==
    /\ rpc = "done"
    /\ AscendingRange
    /\ (rng.end - rng.begin) % rng.step # 0
    /\ Len(out) >= 2
    /\ it > rng.end

---------------------------------------------------------------------------
(* Properties of the alignment helpers, under SpecAlign *)

\* the powers of two a uint64_t can hold
PowersOfTwo == {Pow2(k) : k \in 0 .. (Width - 1)}

\* C8 as stated: for a power of two p, alingn_down(x, p) <= x and
\* x < alingn_down(x, p) + p, the sum taken modulo 2^Width.
C8_BracketWrapped ==
    (aop = "down" /\ ap \in PowersOfTwo) =>
        /\ ares <= ax
        /\ ax < U64(ares + ap)

\* C8 as amended: for a power of two p, alingn_down(x, p) <= x and
\* x < alingn_down(x, p) + p, the sum taken in the integers.
C8_BracketExact ==
    (aop = "down" /\ ap \in PowersOfTwo) =>
        /\ ares <= ax
        /\ ax < ares + ap

\* x lies in the topmost block, where the 64-bit sum wraps
C8_Witness ==
    /\ aop = "down"
    /\ ap \in PowersOfTwo
    /\ ap >= 2
    /\ ares < ax
    /\ ares + ap = Pow2(Width)

\* C10: is_power_of_2(x) is true exactly when x is one of 2^0 .. 2^(Width-1).
C10_ExactlyPowers ==
    aop = "pow2" => (apow <=> ax \in PowersOfTwo)

\* a power of two whose set bit lies in the upper half of the word
C10_Witness ==
    /\ aop = "pow2"
    /\ apow
    /\ ax >= Pow2(Width \div 2)

====
